---- MODULE Spec2Model ----
(***************************************************************************)
(* China A-share order execution of panda-wayback/stock-models.            *)
(*                                                                         *)
(* The repository drives the backtrader library: bt.Cerebro feeds bars,    *)
(* a broker (bt.brokers.BackBroker, or the subclass ChinaStockBroker of    *)
(* core/broker.py) executes orders with the fees of ChinaStockCommInfo,    *)
(* and a strategy (BaseStrategy of strategy/base.py, or a plain            *)
(* bt.Strategy such as policy/test.py) submits them.                       *)
(*                                                                         *)
(* Money is an integer number of li (1 yuan = 1000 li), which keeps the    *)
(* fee rates 0.0003 and 0.001 exact for the prices and sizes used here;    *)
(* the Python code computes the same quantities in floating point.         *)
(* Dates are day numbers; a day has BarsPerDay bars (intraday feeds).      *)
(***************************************************************************)
EXTENDS Integers, Sequences, FiniteSets, TLC

\* ---------------------------------------------------------------- bounds
MaxDay == 2
BarsPerDay == 2
MaxOrders == 3
StartCashYuan == 2010
\* inputs of the direct calls of the fee and sizing functions
MaxLots == 20
MaxPrice == 11
RatioDen == 4
CashStepYuan == 250
MaxCashSteps == 16
\* the number of calls made on the trigger objects in one behaviour
MaxChecks == 4
\* TimeTrigger: calendar dates, triggers added, reset() calls
MaxDates == 2
MaxTriggers == 2
MaxResets == 1
\* DataHandler: calendar days of the requests, revisions of the API data
MaxCalDays == 4
MaxVersions == 2
\* indicator store: dates an indicator is stored under
MaxIndDates == 2
\* FlexibleStrategy: its maperiod parameter (15 by default) kept small, and
\* the highest close of the feed
maperiod == 3
MaxClose == 21

Instruments == {"A", "B"}
\* self.data / self.datas[0]: the main data feed of a strategy
MainData == "A"
\* The feeds: the whole market data is loaded before the run.  "flat" trades
\* at 10 on every bar; in "jump" instrument A trades at 10 on day 1 and at 20
\* from day 2 on.  Open and close of a bar are equal.  A third feed, "rise"
\* (10 on day 1, 11 from day 2 on), is used by the example run only.
FeedKinds == {"flat", "jump"}
PriceAt(f, i, d) ==
    IF f = "jump" /\ i = "A" /\ d >= 2 THEN 20
    ELSE IF f = "rise" /\ d >= 2 THEN 11
    ELSE 10
Sizes == {100, 200}
None == 0
\* no fee or sizing function has been called directly
NoCall == [fn |-> "none"]

\* ------------------------------------------------- fees (comm_info.py)
commission_num == 3
commission_den == 10000
stamp_tax_num == 1
stamp_tax_den == 1000
min_commission == 5
min_size == 100

Yuan(x) == x * 1000

Abs(x) == IF x < 0 THEN -x ELSE x

\* rounding a / b up instead (b > 0)
IntRoundUp(a, b) == -((-a) \div b)

\* Python int(): truncation toward zero of a / b, b > 0
IntTrunc(a, b) == IF a >= 0 THEN a \div b ELSE -((-a) \div b)

\* a commission without the minimum
CommissionNoFloor(size, price) ==
    (Yuan(Abs(size) * price) * commission_num) \div commission_den

\* a stamp tax charged on both sides
StampTaxBothSides(size, price) ==
    (Yuan(Abs(size) * price) * stamp_tax_num) \div stamp_tax_den

\* ChinaStockCommInfo._getcommission, split in its two parts.
\* size > 0 is a buy, size < 0 a sell; price in yuan; result in li.
CommissionPart(size, price) ==
    LET value == Abs(size) * price
        commission == (Yuan(value) * commission_num) \div commission_den
    IN  IF commission < Yuan(min_commission) THEN Yuan(min_commission)
        ELSE commission

StampTaxPart(size, price) ==
    LET value == Abs(size) * price
    IN  IF size < 0 THEN (Yuan(value) * stamp_tax_num) \div stamp_tax_den
        ELSE 0

getcommission(size, price) == CommissionPart(size, price) + StampTaxPart(size, price)

\* ChinaStockBroker.get_commission_info(size, price, is_buy)
get_commission_info(size, price, is_buy) ==
    LET value == Abs(size) * price
        c0 == (Yuan(value) * commission_num) \div commission_den
        commission == IF c0 < Yuan(min_commission) THEN Yuan(min_commission) ELSE c0
        stamp_tax == IF ~is_buy THEN (Yuan(value) * stamp_tax_num) \div stamp_tax_den
                     ELSE 0
    IN  [commission |-> commission, stamp_tax |-> stamp_tax,
         total_cost |-> commission + stamp_tax]

\* ------------------------------------------------------------- state
VARIABLES
    brokerKind,          \* "BackBroker" (engine.py, coc) or "ChinaStockBroker"
    strategyKind,        \* "BaseStrategy" or "bt.Strategy" (direct broker calls)
    feedKind,            \* which market data the run replays
    day, bar,            \* date and bar-in-day of the current bar
    pc,                  \* position in Cerebro's bar cycle: "exec", "notify", "next"
    cash,                \* broker.cash, in li
    position,            \* broker.positions[data].size
    orders,              \* every Order created, indexed by order.ref
    submitted,           \* BackBroker.submitted (refs)
    pending,             \* BackBroker.pending (refs)
    notifs,              \* BackBroker.notifs: <<ref, status>> snapshots
    fills,               \* order.execute(...) records, in order
    broker_buy_dates,    \* ChinaStockBroker._buy_dates {order.ref: date}
    position_buy_dates,  \* T1Broker._position_buy_dates {data: {date: size}}
    order, buy_order, sell_order,   \* BaseStrategy order references (refs)
    strategy_buy_dates,  \* BaseStrategy._buy_dates
    last,                \* outcome of the latest strategy call (observation)
    call                 \* latest direct call of a fee or sizing function, with
                         \* its arguments and what it returned (observation)

\* The components beside the order path.  They share no state with a run:
\* a run leaves them as constructed, and their calls leave the run alone.
\* SignalTrigger and ThresholdSignal (trigger/signal_trigger.py):
VARIABLES
    signals,             \* SignalTrigger.signals: the registered names
    signal_states,       \* SignalTrigger.signal_states {name: bool}
    above,               \* ThresholdSignal.above
    last_state,          \* ThresholdSignal.last_state
    checked,             \* per signal, what its checks saw so far (history)
    trig                 \* the latest trigger call and its result (observation)

triggerVars == <<signals, signal_states, above, last_state, checked, trig>>

\* SignalTrigger() and ThresholdSignal(indicator, threshold) as constructed
NeverChecked == [cond |-> "none", initial |-> FALSE, fresh |-> FALSE]

InitTrigger ==
    /\ signals = {}
    /\ signal_states = <<>>
    /\ above = TRUE
    /\ last_state = FALSE
    /\ checked = [n \in {"ThresholdSignal"} |-> NeverChecked]
    /\ trig = [op |-> "none", calls |-> 0]

\* TimeTrigger (trigger/time_trigger.py):
VARIABLES
    triggers,            \* TimeTrigger.triggers, a list of trigger records
    now,                 \* <<date, time>> of the latest check_and_trigger
    fired,               \* per trigger and date, how often its callback ran
    qualified,           \* per trigger, the dates that had a check at or after
                         \* its time (on its weekday) since it was added
    resets               \* the number of reset() calls so far

timeVars == <<triggers, now, fired, qualified, resets>>

\* TimeTrigger() as constructed, before the first bar
InitTime ==
    /\ triggers = <<>>
    /\ now = <<1, 1>>
    /\ fired = <<>>
    /\ qualified = <<>>
    /\ resets = 0

\* DataHandler and its day-file cache (utils/stock_data/data_handler.py):
VARIABLES
    objects,             \* how many DataHandler objects object.__new__ made
    instance,            \* DataHandler._instance (an object number, or None)
    initialized,         \* the instance has the attribute _initialized
    cache_dir,           \* instance.cache_dir
    baostock_handler,    \* instance.baostock_handler
    fs,                  \* per cache directory, the {date}.parquet files of
                         \* the symbol and frequency, with their content
    apiVersion,          \* which revision of the data the API serves now
    dh                   \* the latest DataHandler call and what it did

dataVars == <<objects, instance, initialized, cache_dir, baostock_handler,
              fs, apiVersion, dh>>

CacheDirs == {"local_data", "other_data"}

\* before the first DataHandler(...): no instance, empty directories
InitData ==
    /\ objects = 0
    /\ instance = None
    /\ initialized = FALSE
    /\ cache_dir = ""
    /\ baostock_handler = ""
    /\ fs = [dir \in CacheDirs |-> <<>>]
    /\ apiVersion = 1
    /\ dh = [op |-> "none"]

\* BaseStrategy's indicator store (strategy/base.py, set_indicator and on):
VARIABLES
    indicators,          \* self.indicators: per name, whether the name is in
                         \* the dict and its {date: value} dict as the
                         \* sequence of its items in insertion order
    ind                  \* the latest set_indicator or clear_indicator call

indVars == <<indicators, ind>>

IndNames == {"chip_peak", "momentum"}

\* self.indicators = {} in __init__
InitInd ==
    /\ indicators = [n \in IndNames |-> [present |-> FALSE, items |-> <<>>]]
    /\ ind = [op |-> "none"]

\* FlexibleStrategy under the default broker (policy/test.py):
VARIABLES
    dataclose,           \* the closes of the latest bars, the current one last
    nbars,               \* how many bars the feed has delivered (capped)
    state,               \* self.state
    stop_price,          \* self.stop_price in twentieths of a price unit
    flex_order,          \* self.order: None or the kind of the order
    flex_pending,        \* the broker's orders that are not yet executed
    flex_notifs,         \* order notifications not yet delivered
    flex_phase           \* what cerebro does next on this bar

flexVars == <<dataclose, nbars, state, stop_price, flex_order, flex_pending,
              flex_notifs, flex_phase>>

\* FlexibleStrategy.__init__, before the first bar
InitFlex ==
    /\ dataclose = <<>>
    /\ nbars = 0
    /\ state = "IDLE"
    /\ stop_price = None
    /\ flex_order = "None"
    /\ flex_pending = <<>>
    /\ flex_notifs = <<>>
    /\ flex_phase = "bar"

utilVars == <<triggerVars, timeVars, dataVars, indVars, flexVars>>
\* what a call on one component leaves alone among the others
exceptTrigger == <<timeVars, dataVars, indVars, flexVars>>
exceptTime == <<triggerVars, dataVars, indVars, flexVars>>
exceptData == <<triggerVars, timeVars, indVars, flexVars>>
exceptInd == <<triggerVars, timeVars, dataVars, flexVars>>
exceptFlex == <<triggerVars, timeVars, dataVars, indVars>>

InitUtil == InitTrigger /\ InitTime /\ InitData /\ InitInd /\ InitFlex

vars == <<brokerKind, strategyKind, feedKind, day, bar, pc, cash, position,
          orders, submitted, pending, notifs, fills, broker_buy_dates,
          position_buy_dates, order, buy_order, sell_order,
          strategy_buy_dates, last, call, utilVars>>

config == <<brokerKind, strategyKind, feedKind>>
feed == <<day, bar>>

\* data.close[0] and data.open[0] of the current bar
close == [i \in Instruments |-> PriceAt(feedKind, i, day)]
open == [i \in Instruments |-> PriceAt(feedKind, i, day)]
strategyState == <<order, buy_order, sell_order, strategy_buy_dates>>

\* The brokers.  "BackBroker" is Cerebro's default bt.brokers.BackBroker as
\* BacktestEngine.__init__ sets it up: ChinaStockCommInfo and set_coc(True)
\* (engine.py:53-65).  T1Broker (broker.py:128-167) is BackBroker plus the
\* attribute _position_buy_dates and the method _check_can_sell, which no
\* code calls or writes: its runs are the runs of "BackBroker".
\* "ChinaStockBroker" is ChinaStockBroker() of broker.py with the same
\* ChinaStockCommInfo added; it keeps backtrader's default coc=False.
coc == brokerKind = "BackBroker"

Signed(o) == IF o.isbuy THEN o.size ELSE -o.size

\* ------------------------------------------------ backtrader Position
\* Position.update(size, price): how much of the operation opens and how
\* much closes the existing position.
Split(P, s) ==
    LET n == P + s
    IN  IF n = 0 THEN [opened |-> 0, closed |-> s]
        ELSE IF P = 0 THEN [opened |-> s, closed |-> 0]
        ELSE IF P > 0
             THEN IF s > 0 THEN [opened |-> s, closed |-> 0]
                  ELSE IF n > 0 THEN [opened |-> 0, closed |-> s]
                  ELSE [opened |-> n, closed |-> -P]
             ELSE IF s < 0 THEN [opened |-> s, closed |-> 0]
                  ELSE IF n < 0 THEN [opened |-> 0, closed |-> s]
                  ELSE [opened |-> n, closed |-> -P]

\* Cash after the closing part of an execution (BackBroker._execute,
\* "if closed"): the closed value plus pnl is returned, the commission of
\* the closed part is charged; nothing checks the result.
CashAfterClosed(c, closed, price) ==
    IF closed # 0 THEN c - closed * Yuan(price) - getcommission(closed, price)
    ELSE c

\* Cash after the opening part (BackBroker._execute, "if opened").
CashAfterOpened(c, opened, price) ==
    IF opened # 0 THEN c - opened * Yuan(price) - getcommission(opened, price)
    ELSE c

\* -------------------------------------------------- ChinaStockBroker
\* a broker without the T+1 check
NoT1Restriction(o) == FALSE

\* ChinaStockBroker._check_t1_restriction(order): TRUE = the sell violates T+1.
\* bt.brokers.BackBroker defines no attribute data: the class runs only when
\* the run assigns broker.data, and self.data.datetime.date(0) is then the
\* date of the current bar (the feeds of a run advance together).
check_t1_restriction(o) ==
    IF position[o.data] = 0 THEN FALSE
    ELSE \E ref \in DOMAIN broker_buy_dates : broker_buy_dates[ref] = day

\* T1Broker._check_can_sell(data, size): TRUE = the sell is allowed.
check_can_sell(data, size) ==
    IF data \notin DOMAIN position_buy_dates THEN TRUE
    ELSE IF position[data] <= 0 THEN TRUE
    ELSE LET today_buy_size ==
                 IF day \in DOMAIN position_buy_dates[data]
                 THEN position_buy_dates[data][day] ELSE 0
             available_size == position[data] - today_buy_size
         IN  available_size >= size

\* broker.buy / broker.sell build the Order (created.price = close of the
\* bar of creation) and hand it to submit(order).  ChinaStockBroker.submit
\* records the date of a buy, rejects a sell that violates T+1 without
\* queueing or notifying it, and otherwise calls BackBroker.submit, which
\* queues the order for the check at the next bar.
NewOrder(isbuy, size, data) ==
    [data |-> data, isbuy |-> isbuy, size |-> size, price |-> close[data],
     cday |-> day, status |-> "Created", executed |-> 0, comm |-> 0]

submit(o) ==
    LET ref == Len(orders) + 1
    IN  IF brokerKind = "ChinaStockBroker" /\ ~o.isbuy /\ check_t1_restriction(o)
        THEN /\ orders' = Append(orders, [o EXCEPT !.status = "Rejected"])
             /\ UNCHANGED <<submitted, broker_buy_dates>>
        ELSE /\ orders' = Append(orders, [o EXCEPT !.status = "Submitted"])
             /\ submitted' = Append(submitted, ref)
             /\ broker_buy_dates' =
                    IF brokerKind = "ChinaStockBroker" /\ o.isbuy
                    THEN (ref :> day) @@ broker_buy_dates
                    ELSE broker_buy_dates

\* ------------------------------------------------------- BackBroker
\* BackBroker.check_submitted: every submitted order is pseudo-executed in
\* submission order at its created price against a running cash and cloned
\* positions; it is accepted into pending when the running cash stays >= 0
\* and ends in Margin otherwise.  The running cash and the cloned position
\* keep the effect of an order that ended in Margin.
RECURSIVE check_submitted(_, _, _, _)
check_submitted(queue, c, pos, acc) ==
    IF queue = <<>> THEN acc
    ELSE LET ref == Head(queue)
             o == orders[ref]
             sp == Split(pos[o.data], Signed(o))
             c2 == CashAfterOpened(CashAfterClosed(c, sp.closed, o.price),
                                   sp.opened, o.price)
             pos2 == [pos EXCEPT ![o.data] = @ + Signed(o)]
         IN  IF c2 >= 0
             THEN check_submitted(Tail(queue), c2, pos2,
                      [acc EXCEPT !.accepted = Append(@, ref)])
             ELSE check_submitted(Tail(queue), c2, pos2,
                      [acc EXCEPT !.margin = Append(@, ref)])

SetStatus(os, refs, st) ==
    [r \in DOMAIN os |->
        IF \E k \in DOMAIN refs : refs[k] = r THEN [os[r] EXCEPT !.status = st]
        ELSE os[r]]

MarginNotifs(refs) == [k \in DOMAIN refs |-> <<refs[k], "Margin">>]

AfterBroker(pend, nots) ==
    IF pend # <<>> THEN "exec" ELSE IF nots # <<>> THEN "notify" ELSE "next"

\* Cerebro advances the feed by one bar and runs broker.next(), which starts
\* with check_submitted.
AdvanceBar ==
    /\ pc = "next"
    /\ ~(day = MaxDay /\ bar = BarsPerDay)
    /\ IF bar < BarsPerDay THEN bar' = bar + 1 /\ day' = day
       ELSE bar' = 1 /\ day' = day + 1
    /\ LET r == check_submitted(submitted, cash, position,
                                [accepted |-> <<>>, margin |-> <<>>])
       IN  /\ orders' = SetStatus(SetStatus(orders, r.accepted, "Accepted"),
                                  r.margin, "Margin")
           /\ pending' = pending \o r.accepted
           /\ notifs' = notifs \o MarginNotifs(r.margin)
           /\ submitted' = <<>>
           /\ pc' = AfterBroker(pending', notifs')
    /\ last' = [op |-> "bar", data |-> MainData, size |-> 0, result |-> "none"]
    /\ UNCHANGED <<call, utilVars, config, cash, position, fills, broker_buy_dates,
                   position_buy_dates, strategyState>>

\* BackBroker._try_exec_market + _execute for the oldest pending order: with
\* cheat-on-close the price is the close of the bar of creation, otherwise
\* the open of the current bar.  The closing part is always executed; the
\* opening part is executed only when the cash stays >= 0, else the order
\* ends in Margin.  A fill is dated by the bar on which the broker executes
\* it, the date BaseStrategy.notify_order records (base.py:87).
ExecPrice(o) == IF coc THEN o.price ELSE open[o.data]

BrokerTryExec ==
    /\ pc = "exec"
    /\ pending # <<>>
    /\ LET ref == Head(pending)
           o == orders[ref]
           px == ExecPrice(o)
           sp == Split(position[o.data], Signed(o))
           c1 == CashAfterClosed(cash, sp.closed, px)
           c2 == CashAfterOpened(c1, sp.opened, px)
           openedOK == sp.opened # 0 /\ c2 >= 0
           margin == sp.opened # 0 /\ c2 < 0
           execsize == sp.closed + (IF openedOK THEN sp.opened ELSE 0)
           comm == (IF sp.closed # 0 THEN getcommission(sp.closed, px) ELSE 0)
                   + (IF openedOK THEN getcommission(sp.opened, px) ELSE 0)
           st1 == IF Abs(execsize) = o.size THEN "Completed" ELSE "Partial"
           n1 == IF execsize # 0 THEN <<(<<ref, st1>>)>> ELSE <<>>
           n2 == IF margin THEN <<(<<ref, "Margin">>)>> ELSE <<>>
       IN  /\ cash' = IF openedOK THEN c2 ELSE c1
           /\ position' = [position EXCEPT ![o.data] = @ + execsize]
           /\ orders' = [orders EXCEPT ![ref] =
                            [@ EXCEPT !.status = IF margin THEN "Margin" ELSE st1,
                                      !.executed = Abs(execsize),
                                      !.comm = comm]]
           /\ fills' = IF execsize # 0
                       THEN Append(fills, [ref |-> ref, data |-> o.data,
                                           day |-> day, price |-> px,
                                           size |-> execsize, comm |-> comm])
                       ELSE fills
           /\ notifs' = notifs \o n1 \o n2
           /\ pending' = Tail(pending)
           /\ pc' = AfterBroker(pending', notifs')
    /\ UNCHANGED <<call, utilVars, config, feed, submitted, broker_buy_dates,
                   position_buy_dates, strategyState, last>>

\* ---------------------------------------------------- BaseStrategy
Outcome(op, data, size, result) ==
    [op |-> op, data |-> data, size |-> size, result |-> result]

\* BaseStrategy.can_sell_today (self.position is the position of self.data)
can_sell_today ==
    IF position[MainData] <= 0 THEN TRUE
    ELSE day \notin strategy_buy_dates

\* BaseStrategy.calculate_position_size, cash branch: cash_ratio = rn / rd
size_from_cash_ratio(rn, rd) ==
    LET price == close[MainData]
        size == IntTrunc(cash * rn, rd * Yuan(price))
        lots == (size \div min_size) * min_size
    IN  IF price <= 0 THEN 0
        ELSE IF lots > 0 THEN lots ELSE 0

\* BaseStrategy.calculate_position_size, position branch: position_ratio = rn / rd
size_from_position_ratio(rn, rd) ==
    LET held == position[MainData]
        size == IntTrunc(Abs(held) * rn, rd)
        lots == (size \div min_size) * min_size
    IN  IF held <= 0 THEN 0
        ELSE IF lots > 0 THEN lots ELSE 0

\* a buy that does not look at self.order
BaseBuyUnguarded(sizeOpt, data) ==
    /\ pc = "next"
    /\ strategyKind = "BaseStrategy"
    /\ LET size == IF sizeOpt = None THEN size_from_cash_ratio(1, 1) ELSE sizeOpt
       IN  IF sizeOpt = None /\ size <= 0
           THEN /\ last' = Outcome("buy", data, size, "none_size")
                /\ UNCHANGED <<orders, submitted, broker_buy_dates, order, buy_order>>
           ELSE /\ Len(orders) < MaxOrders
                /\ submit(NewOrder(TRUE, size, data))
                /\ order' = Len(orders) + 1
                /\ buy_order' = Len(orders) + 1
                /\ last' = Outcome("buy", data, size, "submitted")
    /\ UNCHANGED <<call, utilVars, config, feed, pc, cash, position, pending, notifs, fills,
                   position_buy_dates, sell_order, strategy_buy_dates>>

\* BaseStrategy.buy(size=sizeOpt, data=data)
BaseBuy(sizeOpt, data) ==
    /\ pc = "next"
    /\ strategyKind = "BaseStrategy"
    /\ LET size == IF sizeOpt = None THEN size_from_cash_ratio(1, 1) ELSE sizeOpt
       IN  IF order # None
           THEN UNCHANGED <<orders, submitted, broker_buy_dates, order, buy_order, last>>
           ELSE IF sizeOpt = None /\ size <= 0
           THEN /\ last' = Outcome("buy", data, size, "none_size")
                /\ UNCHANGED <<orders, submitted, broker_buy_dates, order, buy_order>>
           ELSE /\ Len(orders) < MaxOrders
                /\ submit(NewOrder(TRUE, size, data))
                /\ order' = Len(orders) + 1
                /\ buy_order' = Len(orders) + 1
                /\ last' = Outcome("buy", data, size, "submitted")
    /\ UNCHANGED <<call, utilVars, config, feed, pc, cash, position, pending, notifs, fills,
                   position_buy_dates, sell_order, strategy_buy_dates>>

\* BaseStrategy.sell(size=sizeOpt, data=data)
BaseSell(sizeOpt, data) ==
    /\ pc = "next"
    /\ strategyKind = "BaseStrategy"
    /\ LET size == IF sizeOpt = None THEN Abs(position[MainData]) ELSE sizeOpt
       IN  IF order # None
           THEN UNCHANGED <<orders, submitted, broker_buy_dates, order, sell_order, last>>
           ELSE IF ~can_sell_today
           THEN /\ last' = Outcome("sell", data, size, "none_T1")
                /\ UNCHANGED <<orders, submitted, broker_buy_dates, order, sell_order>>
           ELSE IF sizeOpt = None /\ ~(position[MainData] > 0)
           THEN /\ last' = Outcome("sell", data, size, "none_size")
                /\ UNCHANGED <<orders, submitted, broker_buy_dates, order, sell_order>>
           ELSE /\ Len(orders) < MaxOrders
                /\ submit(NewOrder(FALSE, size, data))
                /\ order' = Len(orders) + 1
                /\ sell_order' = Len(orders) + 1
                /\ last' = Outcome("sell", data, size,
                                   IF orders'[Len(orders) + 1].status = "Rejected"
                                   THEN "rejected_T1" ELSE "submitted")
    /\ UNCHANGED <<call, utilVars, config, feed, pc, cash, position, pending, notifs, fills,
                   position_buy_dates, buy_order, strategy_buy_dates>>

\* A plain bt.Strategy (policy/test.py, policy/simple_strategy_example.py):
\* self.buy / self.sell go straight to broker.buy / broker.sell.
PlainBuy(size, data) ==
    /\ pc = "next"
    /\ strategyKind = "bt.Strategy"
    /\ Len(orders) < MaxOrders
    /\ submit(NewOrder(TRUE, size, data))
    /\ last' = Outcome("buy", data, size, "submitted")
    /\ UNCHANGED <<call, utilVars, config, feed, pc, cash, position, pending, notifs, fills,
                   position_buy_dates, strategyState>>

PlainSell(size, data) ==
    /\ pc = "next"
    /\ strategyKind = "bt.Strategy"
    /\ Len(orders) < MaxOrders
    /\ submit(NewOrder(FALSE, size, data))
    /\ last' = Outcome("sell", data, size,
                       IF orders'[Len(orders) + 1].status = "Rejected"
                       THEN "rejected_T1" ELSE "submitted")
    /\ UNCHANGED <<call, utilVars, config, feed, pc, cash, position, pending, notifs, fills,
                   position_buy_dates, strategyState>>

\* Cerebro delivers the oldest broker notification to strategy.notify_order.
\* BaseStrategy.notify_order records the date of a completed buy and resets
\* the order references that equal the notified order (Order equality is by
\* ref); the notify_order of a plain bt.Strategy does nothing here.
\* Submitted / Accepted notifications return at base.py:72-74 without any
\* effect and are not queued.
NotifyOrder ==
    /\ pc = "notify"
    /\ notifs # <<>>
    /\ LET ref == Head(notifs)[1]
           status == Head(notifs)[2]
           o == orders[ref]
       IN  IF strategyKind = "BaseStrategy"
           THEN /\ strategy_buy_dates' =
                       IF status = "Completed" /\ o.isbuy
                       THEN strategy_buy_dates \cup {day}
                       ELSE strategy_buy_dates
                /\ order' = IF ref = order THEN None ELSE order
                /\ buy_order' = IF (status = "Completed" /\ o.isbuy) \/ ref = buy_order
                                THEN None ELSE buy_order
                /\ sell_order' = IF (status = "Completed" /\ ~o.isbuy) \/ ref = sell_order
                                 THEN None ELSE sell_order
           ELSE UNCHANGED strategyState
    /\ notifs' = Tail(notifs)
    /\ pc' = IF notifs' # <<>> THEN "notify" ELSE "next"
    /\ UNCHANGED <<call, utilVars, config, feed, cash, position, orders, submitted, pending,
                   fills, broker_buy_dates, position_buy_dates, last>>

\* --------------------------------------------------- specification
Init ==
    /\ brokerKind \in {"BackBroker", "ChinaStockBroker"}
    /\ strategyKind \in {"BaseStrategy", "bt.Strategy"}
    /\ ~(brokerKind = "BackBroker" /\ strategyKind = "bt.Strategy")
    /\ day = 1
    /\ bar = 1
    /\ feedKind \in FeedKinds
    /\ pc = "next"
    /\ cash = Yuan(StartCashYuan)
    /\ position = [i \in Instruments |-> 0]
    /\ orders = <<>>
    /\ submitted = <<>>
    /\ pending = <<>>
    /\ notifs = <<>>
    /\ fills = <<>>
    /\ broker_buy_dates = <<>>
    /\ position_buy_dates = <<>>
    /\ order = None
    /\ buy_order = None
    /\ sell_order = None
    /\ strategy_buy_dates = {}
    /\ last = Outcome("bar", MainData, 0, "none")
    /\ call = NoCall
    /\ InitUtil

Next ==
    \/ AdvanceBar
    \/ BrokerTryExec
    \/ NotifyOrder
    \/ \E s \in Sizes \cup {None}, d \in Instruments : BaseBuy(s, d)
    \/ \E s \in Sizes \cup {None}, d \in Instruments : BaseSell(s, d)
    \/ \E s \in Sizes, d \in Instruments : PlainBuy(s, d)
    \/ \E s \in Sizes, d \in Instruments : PlainSell(s, d)

Spec == Init /\ [][Next]_vars

\* ------------------------------------------ what the fills say
\* Shares of instrument i bought (buy executions) on date d, from the fills.
RECURSIVE BoughtOn(_, _, _)
BoughtOn(i, d, k) ==
    IF k = 0 THEN 0
    ELSE BoughtOn(i, d, k - 1)
         + (IF fills[k].data = i /\ fills[k].day = d /\ fills[k].size > 0
            THEN fills[k].size ELSE 0)

BoughtToday(i) == BoughtOn(i, day, Len(fills))

\* Shares of i held now that were acquired before today (settled shares).
SettledQuantity(i) ==
    IF position[i] - BoughtToday(i) > 0 THEN position[i] - BoughtToday(i) ELSE 0

\* The step creates an order (buy/sell reached broker.submit).
OrderCreated == Len(orders') = Len(orders) + 1
Created == orders'[Len(orders')]

\* The step is a BaseStrategy.sell call refused by can_sell_today.
SellRefusedByStrategy == last' # last /\ last'.result = "none_T1"

\* The step executes (part of) an order.
FillRecorded == Len(fills') = Len(fills) + 1
Recorded == fills'[Len(fills')]

\* ------------------------------------------------------------ C1
\* C1: a SELL submitted on date D that would have to consume shares bought
\* on D (its size exceeds the settled shares of its instrument while shares
\* bought on D are held) is rejected as soon as it is submitted.
C1_SameDaySellRejected ==
    [][(OrderCreated /\ ~Created.isbuy
            /\ BoughtToday(Created.data) > 0
            /\ position[Created.data] > 0
            /\ Created.size > SettledQuantity(Created.data))
        => Created.status = "Rejected"]_vars

\* ------------------------------------------------------------ C2
\* C2: a SELL for more than the settled quantity of its instrument (also with
\* no position at all) is rejected, and no position is ever negative.
C2_NoOversellNoShort ==
    [][/\ (OrderCreated /\ ~Created.isbuy
              /\ Created.size > SettledQuantity(Created.data))
           => Created.status = "Rejected"
       /\ \A i \in Instruments : position'[i] >= 0]_vars

\* ------------------------------------------------------------ C3
\* C3: an execution of q shares at price p changes cash by -(p*q) - fee for a
\* buy and +(p*q) - fee for a sell, fee being _getcommission for that side
\* and quantity; no other step changes cash.
C3_CashConservation ==
    [][IF FillRecorded
       THEN cash' = cash - Recorded.size * Yuan(Recorded.price)
                         - getcommission(Recorded.size, Recorded.price)
       ELSE cash' = cash]_vars

\* ------------------------------------------------------------ C4
\* C4: a BUY whose price*quantity plus fee exceeds the cash is not executed
\* (it ends in Margin, the INSUFFICIENT_CASH rejection), and cash is >= 0
\* after every executed BUY.
C4_BuyNeverOverdraws ==
    [][/\ (FillRecorded /\ Recorded.size > 0) => cash' >= 0
       /\ (pc = "exec" /\ pending # <<>> /\ orders[Head(pending)].isbuy
              /\ LET o == orders[Head(pending)]
                 IN  o.size * Yuan(ExecPrice(o)) + getcommission(o.size, ExecPrice(o)) > cash)
           => (~FillRecorded /\ orders'[Head(pending)].status = "Margin")]_vars

\* ------------------------------------------------------------ C5
Refused(st) == st \in {"Rejected", "Margin"}

\* The step ends an order in Rejected (T+1) or Margin (insufficient cash).
RejectionStep ==
    \E ref \in DOMAIN orders' :
        /\ Refused(orders'[ref].status)
        /\ ref \in DOMAIN orders => ~Refused(orders[ref].status)

RejectedOrdersHadNoEffect ==
    \A ref \in DOMAIN orders :
        Refused(orders[ref].status)
            => orders[ref].executed = 0 /\ ref \notin DOMAIN broker_buy_dates

\* C5: the step that rejects an order changes neither cash nor any position
\* nor any recorded buy date, a rejected order has executed nothing and has
\* no recorded buy date, and a BaseStrategy.sell refused by T+1 creates no
\* order and keeps self.order.
C5_RejectionChangesNothing ==
    [][/\ RejectionStep
           => /\ cash' = cash
              /\ position' = position
              /\ broker_buy_dates' = broker_buy_dates
              /\ strategy_buy_dates' = strategy_buy_dates
       /\ RejectedOrdersHadNoEffect'
       /\ SellRefusedByStrategy
           => orders' = orders /\ submitted' = submitted /\ order' = order]_vars

\* ------------------------------------------------------------ C6
BuyFilled(ref) == \E k \in DOMAIN fills : fills[k].ref = ref /\ fills[k].size > 0

BuyFilledOn(d) == \E k \in DOMAIN fills : fills[k].day = d /\ fills[k].size > 0

LotsOnlyFromFills ==
    /\ \A ref \in DOMAIN broker_buy_dates : BuyFilled(ref)
    /\ \A d \in strategy_buy_dates : BuyFilledOn(d)

\* The step refuses a SELL for T+1, in the broker or in BaseStrategy.sell.
SellRefused ==
    \/ OrderCreated /\ ~Created.isbuy /\ Created.status = "Rejected"
    \/ SellRefusedByStrategy

RefusedData == IF OrderCreated THEN Created.data ELSE last'.data
RefusedSize == IF OrderCreated THEN Created.size ELSE last'.size

\* C6: every recorded buy date belongs to an executed buy, and a SELL is
\* refused for T+1 only on a date on which a buy was executed.
C6_LotOnlyFromCompletedBuy ==
    [][/\ LotsOnlyFromFills'
       /\ SellRefused => BuyFilledOn(day)]_vars

\* ------------------------------------------------------------ C7
BuyOrderedToday(i) ==
    \E ref \in DOMAIN orders :
        orders[ref].isbuy /\ orders[ref].data = i /\ orders[ref].cday = day

\* C7: a SELL of an instrument none of whose shares was bought, or ordered,
\* today and whose size the position covers is not refused for T+1, whatever
\* was bought in other instruments today.
C7_PerInstrument ==
    [][SellRefused
        => ~(/\ position[RefusedData] >= RefusedSize
             /\ BoughtToday(RefusedData) = 0
             /\ ~BuyOrderedToday(RefusedData))]_vars

\* ------------------------------------------------------------ C8
RECURSIVE CashEffect(_)
CashEffect(k) ==
    IF k = 0 THEN 0
    ELSE CashEffect(k - 1) - fills[k].size * Yuan(fills[k].price) - fills[k].comm

RECURSIVE Executed(_, _)
Executed(i, k) ==
    IF k = 0 THEN 0
    ELSE Executed(i, k - 1) + (IF fills[k].data = i THEN fills[k].size ELSE 0)

\* C8: cash and positions are exactly what the recorded fills add up to, and
\* (ChinaStockBroker) a buy has a recorded buy date exactly when it has a fill.
C8_FillAtomicity ==
    /\ cash = Yuan(StartCashYuan) + CashEffect(Len(fills))
    /\ \A i \in Instruments : position[i] = Executed(i, Len(fills))
    /\ brokerKind = "ChinaStockBroker"
        => \A ref \in DOMAIN orders :
               orders[ref].isbuy => (BuyFilled(ref) <=> ref \in DOMAIN broker_buy_dates)

\* ------------------------------------------------------------ C9
RECURSIVE SumOver(_, _)
SumOver(f, D) ==
    IF D = {} THEN 0
    ELSE LET d == CHOOSE x \in D : TRUE IN f[d] + SumOver(f, D \ {d})

Lots(i) == IF i \in DOMAIN position_buy_dates THEN position_buy_dates[i] ELSE <<>>

LotSum(i) == SumOver(Lots(i), DOMAIN Lots(i))

LotsBefore(i, d) == SumOver(Lots(i), {x \in DOMAIN Lots(i) : x < d})

\* C9: (T1Broker) every lot quantity is >= 0 and the lot quantities of an
\* instrument add up to its position.
C9_LedgerMatchesPosition ==
    brokerKind = "BackBroker" => \A i \in Instruments :
        /\ \A d \in DOMAIN Lots(i) : Lots(i)[d] >= 0
        /\ LotSum(i) = position[i]

\* ------------------------------------------------------------ C10
\* C10: (T1Broker) position minus the shares bought today is the sum of the
\* lots acquired before today, and _check_can_sell accepts a size exactly
\* when it is at most that sum.
C10_SellableIsSettledLots ==
    brokerKind = "BackBroker" => \A i \in Instruments :
        /\ position[i] - (IF day \in DOMAIN Lots(i) THEN Lots(i)[day] ELSE 0)
               = LotsBefore(i, day)
        /\ \A size \in Sizes : check_can_sell(i, size) <=> size <= LotsBefore(i, day)

\* ------------------------------------------------------------ C11
\* T1Broker._check_can_sell, broker.py:159-165: the quantity it calls
\* available ("total position minus the quantity bought today").
available_size(data) ==
    position[data]
        - (IF data \in DOMAIN position_buy_dates
              /\ day \in DOMAIN position_buy_dates[data]
           THEN position_buy_dates[data][day] ELSE 0)

\* What BaseStrategy lets a sell() take of self.data: the whole position when
\* can_sell_today, nothing otherwise (base.py:600-607).
StrategySellable ==
    IF can_sell_today /\ position[MainData] > 0 THEN position[MainData] ELSE 0

\* The step moves the feed from the last bar of a date to the next date; it
\* executes nothing, so no buy and no sell happens in it.
DateAdvances == day' = day + 1

\* C11: when the date advances from D-1 to D with no buy and no sell, the
\* sellable quantity of every instrument does not decrease and grows by
\* exactly the quantity bought on D-1 (T1Broker's available quantity, and
\* what BaseStrategy allows to sell of its data).
C11_SettlementMonotone ==
    [][DateAdvances =>
        /\ brokerKind = "BackBroker" =>
               \A i \in Instruments :
                   /\ available_size(i)' >= available_size(i)
                   /\ available_size(i)' = available_size(i) + BoughtOn(i, day, Len(fills))
        /\ strategyKind = "BaseStrategy" =>
               /\ StrategySellable' >= StrategySellable
               /\ StrategySellable' = StrategySellable
                                        + BoughtOn(MainData, day, Len(fills))]_vars

\* ------------------------------------------------------------ C12
Min(a, b) == IF a < b THEN a ELSE b

\* consume_sell as the specification describes it: q shares are taken from
\* the lots with dates in D, oldest date first; a lot that reaches zero is
\* removed.
RECURSIVE ConsumeOldestFirst(_, _, _)
ConsumeOldestFirst(lots, D, q) ==
    IF q = 0 \/ D = {} THEN lots
    ELSE LET m == CHOOSE x \in D : \A y \in D : x <= y
             take == Min(q, lots[m])
             rest == IF take = lots[m]
                     THEN [x \in DOMAIN lots \ {m} |-> lots[x]]
                     ELSE [lots EXCEPT ![m] = @ - take]
         IN  ConsumeOldestFirst(rest, D \ {m}, q - take)

\* C12: (T1Broker) a sell of q shares is executed only when q is at most the
\* settled quantity (the lots acquired before today), and it then takes q
\* from the settled lots oldest first, removes emptied lots, leaves today's
\* lot alone and lowers the lot total by exactly q.
C12_ConsumeSellFIFO ==
    [][\A i \in Instruments :
        (brokerKind = "BackBroker" /\ FillRecorded
             /\ Recorded.size < 0 /\ Recorded.data = i) =>
            LET q == -Recorded.size
                settled == {x \in DOMAIN Lots(i) : x < day}
            IN  /\ q <= LotsBefore(i, day)
                /\ Lots(i)' = ConsumeOldestFirst(Lots(i), settled, q)
                /\ LotSum(i)' = LotSum(i) - q]_vars

\* ------------------------------------------------------------ C14
Terminal(st) == st \in {"Completed", "Margin", "Rejected", "Canceled"}

\* The order reaches a terminal status in this step (a sell rejected inside
\* submit is created in it).
BecomesTerminal(ref) ==
    /\ ref \in DOMAIN orders'
    /\ Terminal(orders'[ref].status)
    /\ ref \in DOMAIN orders => ~Terminal(orders[ref].status)

\* The notifications the broker queues for the strategy in this step.
NewNotifs ==
    IF Len(notifs') > Len(notifs)
    THEN SubSeq(notifs', Len(notifs) + 1, Len(notifs')) ELSE <<>>

NotifsFor(ref) == {k \in DOMAIN NewNotifs : NewNotifs[k][1] = ref}

FillsOf(ref) == {k \in DOMAIN fills : fills[k].ref = ref}

OneFillPerFilledOrder ==
    \A ref \in DOMAIN orders :
        Cardinality(FillsOf(ref)) = IF orders[ref].status = "Completed" THEN 1 ELSE 0

\* C14: an order that is filled or rejected (also a sell rejected for T+1
\* inside the broker) gets exactly one notification, a fill event when it is
\* Completed and a rejection event otherwise; no other notification is
\* queued; and an order has one fill exactly when it is Completed.
C14_OneEventPerOrder ==
    [][/\ \A ref \in DOMAIN orders' :
              IF BecomesTerminal(ref)
              THEN /\ Cardinality(NotifsFor(ref)) = 1
                   /\ \A k \in NotifsFor(ref) : NewNotifs[k][2] = orders'[ref].status
              ELSE NotifsFor(ref) = {}
       /\ OneFillPerFilledOrder']_vars

\* ------------------------------------------------------------ C15
\* The orders of one bar evaluated one after the other, each against the
\* cash and positions the previous one left: an accepted order leaves its
\* cost and quantity, a rejected order leaves everything as it was.
RECURSIVE EachAgainstPrevious(_, _, _, _)
EachAgainstPrevious(queue, c, pos, acc) ==
    IF queue = <<>> THEN acc
    ELSE LET ref == Head(queue)
             o == orders[ref]
             sp == Split(pos[o.data], Signed(o))
             c2 == CashAfterOpened(CashAfterClosed(c, sp.closed, o.price),
                                   sp.opened, o.price)
             pos2 == [pos EXCEPT ![o.data] = @ + Signed(o)]
         IN  IF c2 >= 0
             THEN EachAgainstPrevious(Tail(queue), c2, pos2,
                      [acc EXCEPT !.accepted = Append(@, ref)])
             ELSE EachAgainstPrevious(Tail(queue), c, pos,
                      [acc EXCEPT !.margin = Append(@, ref)])

\* The step is the broker's check of the orders submitted during the bar.
ChecksSubmitted == submitted # <<>> /\ submitted' = <<>>

\* C15: the orders submitted in a bar are checked and executed in the order
\* of submission, each against the cash and positions left by the previous
\* one, so that of two buys affordable alone but not together the first is
\* accepted and the second is rejected for insufficient cash.
C15_SubmissionOrder ==
    [][/\ ChecksSubmitted =>
           LET r == EachAgainstPrevious(submitted, cash, position,
                                        [accepted |-> <<>>, margin |-> <<>>])
           IN  /\ pending' = pending \o r.accepted
               /\ \A k \in DOMAIN r.margin : orders'[r.margin[k]].status = "Margin"
       /\ FillRecorded => Recorded.ref = Head(pending)]_vars

\* ------------------------------------------------------------ C13
\* The lifecycle state of the contract behind a backtrader order status.
Phase(st) ==
    IF st = "Completed" THEN "FILLED"
    ELSE IF st \in {"Margin", "Rejected"} THEN "REJECTED"
    ELSE IF st = "Canceled" THEN "CANCELED"
    ELSE "PENDING"

Without(queue, ref) == SelectSeq(queue, LAMBDA r : r # ref)

\* A cancel that does not look at the broker's pending list.
CancelAnyOrder(ref) ==
    /\ pc = "next"
    /\ ref \in DOMAIN orders
    /\ orders' = [orders EXCEPT ![ref].status = "Canceled"]
    /\ pending' = Without(pending, ref)
    /\ notifs' = Append(notifs, <<ref, "Canceled">>)
    /\ last' = Outcome("cancel", orders[ref].data, orders[ref].size, "true")
    /\ UNCHANGED <<call, utilVars, config, feed, pc, cash, position, submitted, fills,
                   broker_buy_dates, position_buy_dates, strategyState>>

\* strategy.cancel(order) -> broker.cancel(order).  Both brokers inherit
\* BackBroker.cancel: the order is removed from the pending list, set to
\* Canceled and notified; when it is not in the pending list (still in the
\* submitted queue, or already executed or rejected) nothing is cancelled
\* and the call returns False.
Cancel(ref) ==
    /\ pc = "next"
    /\ ref \in DOMAIN orders
    /\ IF \E k \in DOMAIN pending : pending[k] = ref
       THEN /\ orders' = [orders EXCEPT ![ref].status = "Canceled"]
            /\ pending' = Without(pending, ref)
            /\ notifs' = Append(notifs, <<ref, "Canceled">>)
            /\ last' = Outcome("cancel", orders[ref].data, orders[ref].size, "true")
       ELSE /\ last' = Outcome("cancel", orders[ref].data, orders[ref].size, "false")
            /\ UNCHANGED <<orders, pending, notifs>>
    /\ UNCHANGED <<call, utilVars, config, feed, pc, cash, position, submitted, fills,
                   broker_buy_dates, position_buy_dates, strategyState>>

\* Runs on the strategy's own data feed, with a flat price, in which the
\* strategy may also cancel any of its orders.
InitLifecycle == Init /\ feedKind = "flat"

NextLifecycle ==
    \/ AdvanceBar
    \/ BrokerTryExec
    \/ NotifyOrder
    \/ \E s \in Sizes \cup {None} : BaseBuy(s, MainData)
    \/ \E s \in Sizes \cup {None} : BaseSell(s, MainData)
    \/ \E s \in Sizes : PlainBuy(s, MainData)
    \/ \E s \in Sizes : PlainSell(s, MainData)
    \/ \E ref \in 1..MaxOrders : Cancel(ref)

SpecLifecycle == InitLifecycle /\ [][NextLifecycle]_vars

CancelCalled == last' # last /\ last'.op = "cancel"

calculate_position_size(mode, c, price, held, rn, rd, fixed, lot) ==
    LET rounded(size) == (size \div lot) * lot
        max0(size) == IF size > 0 THEN size ELSE 0
    IN  IF mode = "fixed" THEN max0(rounded(fixed))
        ELSE IF mode = "position"
        THEN IF held <= 0 THEN 0
             ELSE max0(rounded(IntTrunc(Abs(held) * rn, rd)))
        ELSE IF price <= 0 THEN 0
             ELSE max0(rounded(IntTrunc(c * rn, rd * Yuan(price))))

\* The inputs: trade sizes in round lots of either sign, whole prices, cash
\* in steps (one value negative), ratios rn / RatioDen from below 0 to 2,
\* holdings in round lots (also a short one), three lot sizes.
CallSizes == {k * min_size : k \in -MaxLots..MaxLots}
CallPrices == 0..MaxPrice
CallCash == {Yuan(k * CashStepYuan) : k \in -1..MaxCashSteps}
CallRatioNums == -1..(2 * RatioDen)
CallHeld == {k * 50 : k \in -2..MaxLots}
CallLots == {1, min_size, 3 * min_size}

runVars == <<brokerKind, strategyKind, feedKind, day, bar, pc, cash, position,
             orders, submitted, pending, notifs, fills, broker_buy_dates,
             position_buy_dates, order, buy_order, sell_order,
             strategy_buy_dates, last>>

\* The functions called are pure (they read their arguments, the broker's
\* cash and the position, and write nothing), so the result of a call does
\* not depend on earlier calls: a behaviour makes one call.
\* comminfo._getcommission(size, price, False) and
\* broker.get_commission_info(abs(size), price, is_buy) for the same trade
CallFees(size, price, is_buy) ==
    /\ call = NoCall
    /\ call' = [fn |-> "fees", size |-> size, price |-> price, is_buy |-> is_buy,
                total |-> getcommission(size, price),
                info |-> get_commission_info(Abs(size), price, is_buy)]
    /\ UNCHANGED <<runVars, utilVars>>

\* calculate_position_size(cash_ratio=rn/RatioDen, min_size=lot) with the
\* broker holding cash c and the current close at price
\* (the function has no raise statement: every call returns a size)
CallCashSize(c, price, rn, lot) ==
    /\ call = NoCall
    /\ call' = [fn |-> "cash_ratio", cash |-> c, price |-> price, rn |-> rn,
                rd |-> RatioDen, lot |-> lot,
                size |-> calculate_position_size("cash", c, price, 0, rn,
                                                 RatioDen, None, lot),
                raised |-> "none"]
    /\ UNCHANGED <<runVars, utilVars>>

\* calculate_position_size(position_ratio=rn/RatioDen, min_size=lot) with
\* self.position.size = held
CallPositionSize(held, rn, lot) ==
    /\ call = NoCall
    /\ call' = [fn |-> "position_ratio", held |-> held, rn |-> rn,
                rd |-> RatioDen, lot |-> lot,
                size |-> calculate_position_size("position", 0, 0, held, rn,
                                                 RatioDen, None, lot),
                raised |-> "none"]
    /\ UNCHANGED <<runVars, utilVars>>

InitCalc ==
    /\ Init
    /\ brokerKind = "ChinaStockBroker"
    /\ strategyKind = "BaseStrategy"
    /\ feedKind = "flat"

NextCalc ==
    \/ \E size \in CallSizes, price \in CallPrices, is_buy \in BOOLEAN :
           CallFees(size, price, is_buy)
    \/ \E c \in CallCash, price \in CallPrices, rn \in CallRatioNums,
          lot \in CallLots : CallCashSize(c, price, rn, lot)
    \/ \E held \in CallHeld, rn \in CallRatioNums, lot \in CallLots :
           CallPositionSize(held, rn, lot)

SpecCalc == InitCalc /\ [][NextCalc]_vars

\* ------------------------------------------------------------ C16
\* m is the larger of a / b and c, written without division (b > 0)
IsMaxOf(m, a, b, c) ==
    /\ m * b >= a
    /\ m >= c
    /\ m * b = a \/ m = c

TradeValue == Yuan(Abs(call.size) * call.price)

\* C16: for a trade of either side with price > 0 the commission is the
\* larger of value * commission rate and the minimum commission, so it is
\* never below the minimum, and _getcommission charges the same commission
\* as get_commission_info reports.
C16_FeeFloor ==
    (call.fn = "fees" /\ call.price > 0) =>
        /\ IsMaxOf(call.info.commission, TradeValue * commission_num,
                   commission_den, Yuan(min_commission))
        /\ call.info.commission >= Yuan(min_commission)
        /\ call.total - (IF call.size < 0
                         THEN (TradeValue * stamp_tax_num) \div stamp_tax_den
                         ELSE 0) = call.info.commission

\* a small trade charged the minimum and a large one charged the rate
C16_WitnessFloor ==
    /\ call.fn = "fees" /\ call.price > 0 /\ call.size # 0
    /\ call.info.commission = Yuan(min_commission)
    /\ TradeValue * commission_num < Yuan(min_commission) * commission_den

C16_Witness ==
    /\ call.fn = "fees" /\ call.price > 0
    /\ call.info.commission > Yuan(min_commission)
    /\ call.total = call.info.total_cost

\* ------------------------------------------------------------ C17
\* C17: the stamp duty is 0 on a buy and value * stamp duty rate on a sell,
\* and the total charged is commission + stamp duty, in
\* get_commission_info (side given by is_buy) and in _getcommission (side
\* given by the sign of size); the total of a buy is its commission.
C17_StampDuty ==
    (call.fn = "fees" /\ call.price > 0) =>
        /\ call.info.stamp_tax * stamp_tax_den
               = IF call.is_buy THEN 0 ELSE TradeValue * stamp_tax_num
        /\ call.info.total_cost = call.info.commission + call.info.stamp_tax
        /\ call.is_buy => call.info.total_cost = call.info.commission
        /\ (call.is_buy <=> call.size > 0) => call.total = call.info.total_cost
        /\ call.size > 0 => call.total = call.info.commission

\* a sell that pays stamp duty on top of its commission
C17_Witness ==
    /\ call.fn = "fees" /\ call.price > 0
    /\ call.size < 0 /\ ~call.is_buy
    /\ call.info.stamp_tax > 0
    /\ call.total = call.info.commission + call.info.stamp_tax

\* ------------------------------------------------------------ C19
\* n is x / d (d > 0) rounded down to a whole number and then down to a
\* multiple of lot, i.e. the largest multiple of lot not above x / d,
\* written without division.
IsLotFloor(n, x, d, lot) ==
    /\ n % lot = 0
    /\ n * d <= x
    /\ x < (n + lot) * d

C20_PositionRatioSize ==
    call.fn = "position_ratio" =>
        IF call.held <= 0 THEN call.size = 0
        ELSE /\ call.rn >= 0 =>
                    IsLotFloor(call.size, call.held * call.rn, call.rd, call.lot)
             /\ call.size <= call.held

\* ------------------------------------------------------------ C18
\* BacktestEngine's default initial_cash (engine.py:24), in yuan
initial_cash == 100000

\* The example run: the default cash, the feed "rise", and a strategy that
\* buys 1000 shares of its data feed on day 1, then tries to sell them (by
\* size or, with BaseStrategy, the whole position) whenever it holds them
\* and has no order waiting at the broker.  The fees of the two trades can
\* also be asked for directly.
InitScenario ==
    /\ brokerKind \in {"BackBroker", "ChinaStockBroker"}
    /\ strategyKind \in {"BaseStrategy", "bt.Strategy"}
    /\ ~(brokerKind = "BackBroker" /\ strategyKind = "bt.Strategy")
    /\ day = 1
    /\ bar = 1
    /\ feedKind = "rise"
    /\ pc = "next"
    /\ cash = Yuan(initial_cash)
    /\ position = [i \in Instruments |-> 0]
    /\ orders = <<>>
    /\ submitted = <<>>
    /\ pending = <<>>
    /\ notifs = <<>>
    /\ fills = <<>>
    /\ broker_buy_dates = <<>>
    /\ position_buy_dates = <<>>
    /\ order = None
    /\ buy_order = None
    /\ sell_order = None
    /\ strategy_buy_dates = {}
    /\ last = Outcome("bar", MainData, 0, "none")
    /\ call = NoCall
    /\ InitUtil

ScenarioBuys == orders = <<>> /\ day = 1 /\ bar < BarsPerDay

ScenarioSells == Len(fills) = 1 /\ position[MainData] = 1000 /\ submitted = <<>>

NextScenario ==
    \/ AdvanceBar
    \/ BrokerTryExec
    \/ NotifyOrder
    \/ ScenarioBuys /\ BaseBuy(1000, MainData)
    \/ ScenarioBuys /\ PlainBuy(1000, MainData)
    \/ ScenarioSells /\ \E s \in {1000, None} : BaseSell(s, MainData)
    \/ ScenarioSells /\ PlainSell(1000, MainData)
    \/ \E size \in {1000, -1000}, price \in {10, 11} :
           CallFees(size, price, size > 0)

SpecScenario == InitScenario /\ [][NextScenario]_vars

\* The step is a call of sell that returned (not the early return of a
\* BaseStrategy that still waits for an order).
SellCalled == last'.op = "sell" /\ (last' # last \/ orders' # orders)

\* C18: in the example run the buy of 1000 at 10.00 on day 1 costs a fee of
\* 5 and leaves cash 89995 and 1000 shares; every sell of the 1000 shares
\* on day 1 is refused for T+1 and leaves cash and position as they are;
\* a sell on a later day is submitted and accepted, and its fill at 11.00
\* pays a total fee of 16 and leaves cash 100979 and no shares.  Asked
\* directly, the fee of the buy is 5 and that of the sell 5 + 11 = 16.
C18_ExampleScenario ==
    [][/\ (call'.fn = "fees" /\ call'.size = 1000 /\ call'.price = 10) =>
           call'.total = Yuan(5) /\ call'.info.total_cost = Yuan(5)
       /\ (call'.fn = "fees" /\ call'.size = -1000 /\ call'.price = 11) =>
           /\ call'.total = Yuan(16)
           /\ call'.info = [commission |-> Yuan(5), stamp_tax |-> Yuan(11),
                            total_cost |-> Yuan(16)]
       /\ Len(fills') >= 1 =>
           /\ fills'[1] = [ref |-> 1, data |-> MainData, day |-> 1, price |-> 10,
                           size |-> 1000, comm |-> Yuan(5)]
           /\ Len(fills') = 1 =>
                  cash' = Yuan(89995) /\ position'[MainData] = 1000
       /\ (SellCalled /\ day = 1) =>
           /\ last'.result \in {"none_T1", "rejected_T1"}
           /\ cash' = Yuan(89995) /\ position'[MainData] = 1000
           /\ submitted' = <<>> /\ pending' = <<>>
       /\ (SellCalled /\ day > 1) => last'.result = "submitted"
       /\ \A ref \in DOMAIN orders' :
              /\ orders'[ref].status # "Margin"
              /\ orders'[ref].status = "Rejected" => orders'[ref].cday = 1
       /\ Len(fills') >= 2 =>
           /\ Len(fills') = 2
           /\ fills'[2].size = -1000 /\ fills'[2].price = 11
           /\ fills'[2].day > 1
           /\ fills'[2].comm = Yuan(16)
           /\ cash' = Yuan(100979)
           /\ position'[MainData] = 0]_vars

\* the whole example: bought, a sell refused on day 1, sold on a later day
C18_Witness ==
    /\ Len(fills) = 2
    /\ \E ref \in DOMAIN orders :
           ~orders[ref].isbuy /\ orders[ref].status = "Rejected"
    /\ cash = Yuan(100979)
    /\ position[MainData] = 0

\* ------------------------------------------------------------ C21
\* C21: a sizing call with price <= 0 fails with InvalidPrice and one with a
\* ratio outside [0, 1] fails with InvalidRatio, instead of returning a
\* share count.
C21_SizingValidation ==
    call.fn \in {"cash_ratio", "position_ratio"} =>
        /\ (call.fn = "cash_ratio" /\ call.price <= 0) =>
               call.raised = "InvalidPrice"
        /\ (call.rn < 0 \/ call.rn > call.rd) =>
               call.raised \in {"InvalidPrice", "InvalidRatio"}

\* ------------------------------------------------------------ C22
\* the orders that have not reached a terminal status
Outstanding(os) == {ref \in DOMAIN os : ~Terminal(os[ref].status)}

\* C22: while self.order is set no call of BaseStrategy.buy or sell creates
\* an order, and a BaseStrategy never has more than one order that has not
\* reached a terminal status; that order is the one self.order refers to.
C22_SingleOutstandingOrder ==
    [][strategyKind = "BaseStrategy" =>
          /\ order # None => Len(orders') = Len(orders)
          /\ Cardinality(Outstanding(orders')) <= 1
          /\ \A ref \in Outstanding(orders') : order' = ref]_vars

\* a second order waits at the broker after the first one was completed
C22_Witness ==
    /\ strategyKind = "BaseStrategy"
    /\ Len(orders) >= 2
    /\ order = Len(orders)
    /\ Outstanding(orders) = {order}
    /\ orders[1].status = "Completed"

\* ------------------------------------------------------------ C23
\* The runs of SpecLifecycle in which Cerebro keeps going: it advances the
\* feed while bars are left, the broker executes what is pending and the
\* notifications are delivered.
SpecFair ==
    /\ SpecLifecycle
    /\ WF_vars(AdvanceBar)
    /\ WF_vars(BrokerTryExec)
    /\ WF_vars(NotifyOrder)

EndOfData == day = MaxDay /\ bar = BarsPerDay

\* C23: whenever self.order of a BaseStrategy refers to an order, self.order
\* is later reset (the order completed, got Margin or was rejected and the
\* strategy was told), unless the data ends while the order still waits at
\* the broker.
C23_NoPermanentBlock ==
    \A ref \in 1..MaxOrders :
        (strategyKind = "BaseStrategy" /\ order = ref)
            ~> (order # ref \/ (EndOfData /\ ref \in Outstanding(orders)))

\* ===================================================== signal_trigger.py
SignalNames == {"buy", "sell"}

\* the threshold of the ThresholdSignal and the indicator values around it
threshold == 60
IndicatorValues == {threshold - 1, threshold, threshold + 1}

Seen(cond) == IF cond THEN "T" ELSE "F"

TrigCall(op, name, cond, result) ==
    [op |-> op, name |-> name, cond |-> cond, result |-> result,
     calls |-> trig.calls + 1]

\* SignalTrigger.register_signal(n, condition_func, initial)
RegisterSignal(n, initial) ==
    /\ trig.calls < MaxChecks
    /\ signals' = signals \cup {n}
    /\ signal_states' = (n :> initial) @@ signal_states
    /\ checked' = (n :> [NeverChecked EXCEPT !.initial = initial]) @@ checked
    /\ trig' = TrigCall("register_signal", n, initial, FALSE)
    /\ UNCHANGED <<above, last_state, runVars, call, exceptTrigger>>

\* a check_signal that does not store the state it saw
CheckSignalKeepsState(n, cond) ==
    /\ trig.calls < MaxChecks
    /\ IF n \notin signals
       THEN /\ trig' = TrigCall("check_signal", n, FALSE, FALSE)
            /\ UNCHANGED <<signal_states, checked>>
       ELSE /\ signal_states' = signal_states
            /\ checked' = [checked EXCEPT ![n].cond = Seen(cond), ![n].fresh = FALSE]
            /\ trig' = TrigCall("check_signal", n, cond,
                                cond /\ ~signal_states[n])
    /\ UNCHANGED <<signals, above, last_state, runVars, call, exceptTrigger>>

\* SignalTrigger.check_signal(n), the condition function returning cond
CheckSignal(n, cond) ==
    /\ trig.calls < MaxChecks
    /\ IF n \notin signals
       THEN /\ trig' = TrigCall("check_signal", n, FALSE, FALSE)
            /\ UNCHANGED <<signal_states, checked>>
       ELSE /\ signal_states' = [signal_states EXCEPT ![n] = cond]
            /\ checked' = [checked EXCEPT ![n].cond = Seen(cond), ![n].fresh = FALSE]
            /\ trig' = TrigCall("check_signal", n, cond,
                                cond /\ ~signal_states[n])
    /\ UNCHANGED <<signals, above, last_state, runVars, call, exceptTrigger>>

\* SignalTrigger.is_signal_active(n)
IsSignalActive(n) ==
    /\ trig.calls < MaxChecks
    /\ trig' = TrigCall("is_signal_active", n, FALSE,
                        IF n \in signals THEN signal_states[n] ELSE FALSE)
    /\ UNCHANGED <<signals, signal_states, checked, above, last_state,
                   runVars, call, exceptTrigger>>

\* SignalTrigger.reset()
ResetSignals ==
    /\ trig.calls < MaxChecks
    /\ signal_states' = [n \in DOMAIN signal_states |-> FALSE]
    /\ checked' = [n \in DOMAIN checked |->
                      IF n \in signals THEN [checked[n] EXCEPT !.fresh = TRUE]
                      ELSE checked[n]]
    /\ trig' = TrigCall("reset", "", FALSE, FALSE)
    /\ UNCHANGED <<signals, above, last_state, runVars, call, exceptTrigger>>

\* ThresholdSignal(indicator, threshold, above=ab)
NewThresholdSignal(ab) ==
    /\ trig.calls < MaxChecks
    /\ above' = ab
    /\ last_state' = FALSE
    /\ checked' = [checked EXCEPT !["ThresholdSignal"] = NeverChecked]
    /\ trig' = TrigCall("ThresholdSignal", "ThresholdSignal", ab, FALSE)
    /\ UNCHANGED <<signals, signal_states, runVars, call, exceptTrigger>>

\* ThresholdSignal.check() with len(indicator) = len and indicator[0] = value
ThresholdCheck(len, value) ==
    /\ trig.calls < MaxChecks
    /\ IF len < 1
       THEN /\ trig' = TrigCall("check_empty", "ThresholdSignal", FALSE, FALSE)
            /\ UNCHANGED <<last_state, checked>>
       ELSE LET current_state == IF above THEN value > threshold
                                 ELSE value < threshold
            IN  /\ trig' = TrigCall("check", "ThresholdSignal", current_state,
                                    current_state /\ ~last_state)
                /\ last_state' = current_state
                /\ checked' = [checked EXCEPT
                                  !["ThresholdSignal"].cond = Seen(current_state),
                                  !["ThresholdSignal"].fresh = FALSE]
    /\ UNCHANGED <<signals, signal_states, above, runVars, call, exceptTrigger>>

NextSignal ==
    \/ \E n \in SignalNames, initial \in BOOLEAN : RegisterSignal(n, initial)
    \/ \E n \in SignalNames, cond \in BOOLEAN : CheckSignal(n, cond)
    \/ \E n \in SignalNames : IsSignalActive(n)
    \/ ResetSignals
    \/ \E ab \in BOOLEAN : NewThresholdSignal(ab)
    \/ \E len \in {0, 1}, value \in IndicatorValues : ThresholdCheck(len, value)

SpecSignal == InitCalc /\ [][NextSignal]_vars

\* ------------------------------------------------------------ C24
\* The step is a check of signal n (check_signal of a registered name, or
\* ThresholdSignal.check with data).
Checks(n) == trig'.op \in {"check_signal", "check"} /\ trig'.name = n
                 /\ n \in DOMAIN checked

\* what the previous check of n saw, or its initial state before any check
SeenBefore(n) ==
    IF checked[n].cond = "none" THEN checked[n].initial ELSE checked[n].cond = "T"

\* C24 as stated: a check returns True only when the condition is true and
\* was false at the previous check of the signal (or in its initial state),
\* so a run of checks with the condition true returns True at most once;
\* an unregistered name returns False; is_signal_active reports the
\* condition seen by the latest check.
C24_RisingEdgeAsStated ==
    [][/\ \A n \in DOMAIN checked :
              (Checks(n) /\ trig'.result) => (trig'.cond /\ ~SeenBefore(n))
       /\ (trig'.op = "check_signal" /\ trig'.name \notin signals) => ~trig'.result
       /\ (trig'.op = "is_signal_active" /\ trig'.calls # trig.calls) =>
              IF trig'.name \in signals /\ checked[trig'.name].cond # "none"
              THEN trig'.result = (checked[trig'.name].cond = "T")
              ELSE trig'.name \notin signals => ~trig'.result]_vars

\* the same with reset() taken into account: after a reset a signal counts
\* as not seen true
SeenBeforeOrReset(n) == IF checked[n].fresh THEN FALSE ELSE SeenBefore(n)

\* C24 amended: a check returns True only when the condition is true and
\* was false at the previous check of the signal, or in its initial state,
\* or reset() was called since; without a reset in between, a run of checks
\* with the condition true returns True at most once; an unregistered name
\* returns False; is_signal_active reports the condition seen by the latest
\* check, the initial state before any check, and False after a reset.
C24_RisingEdge ==
    [][/\ \A n \in DOMAIN checked :
              (Checks(n) /\ trig'.result) => (trig'.cond /\ ~SeenBeforeOrReset(n))
       /\ (trig'.op = "check_signal" /\ trig'.name \notin signals) => ~trig'.result
       /\ (trig'.op = "is_signal_active" /\ trig'.calls # trig.calls) =>
              IF trig'.name \in signals
              THEN trig'.result = SeenBeforeOrReset(trig'.name)
              ELSE ~trig'.result]_vars

\* a signal checked twice in a row with its condition true: the second
\* check has just returned False
C24_Witness ==
    /\ trig.op = "check_signal" /\ trig.name \in signals
    /\ trig.cond /\ ~trig.result
    /\ signal_states[trig.name]
    /\ trig.calls >= 3

\* ======================================================= time_trigger.py
Dates == 1..MaxDates
\* times of day, in order (e.g. 9:30, 11:30, 15:00)
TimesOfDay == {1, 2, 3}
\* datetime.weekday() of a date (date 1 is a Monday)
WeekdayOf(d) == (d - 1) % 7
NoDate == 0

\* a trigger entry that never records when it fired
NewTrigger(type, weekday, t) ==
    [type |-> type, weekday |-> weekday, time |-> t, last_trigger_date |-> NoDate]

\* TimeTrigger.add_daily_trigger(t, callback) / add_weekly_trigger(weekday,
\* t, callback): the entry is appended with last_trigger_date None
AddTrigger(type, weekday, t) ==
    /\ Len(triggers) < MaxTriggers
    /\ triggers' = Append(triggers, NewTrigger(type, weekday, t))
    /\ fired' = Append(fired, [d \in Dates |-> 0])
    /\ qualified' = Append(qualified, {})
    /\ UNCHANGED <<now, resets, exceptTime, runVars, call>>

\* the condition of check_and_trigger for one trigger at date d, time t
should_trigger(trigger, d, t) ==
    IF trigger.type = "daily"
    THEN t >= trigger.time /\ trigger.last_trigger_date # d
    ELSE /\ WeekdayOf(d) = trigger.weekday
         /\ t >= trigger.time
         /\ trigger.last_trigger_date # d

\* a check on date d at time t is one the trigger waits for
Qualifies(trigger, d, t) ==
    /\ t >= trigger.time
    /\ trigger.type = "weekly" => WeekdayOf(d) = trigger.weekday

\* a check_and_trigger that runs the callback without noting the date
CheckAndTriggerForgets(d, t) ==
    /\ <<d, t>> # now
    /\ d > now[1] \/ (d = now[1] /\ t >= now[2])
    /\ now' = <<d, t>>
    /\ triggers' = triggers
    /\ fired' = [k \in DOMAIN triggers |->
                    IF should_trigger(triggers[k], d, t)
                    THEN [fired[k] EXCEPT ![d] = @ + 1] ELSE fired[k]]
    /\ qualified' = [k \in DOMAIN triggers |->
                        IF Qualifies(triggers[k], d, t)
                        THEN qualified[k] \cup {d} ELSE qualified[k]]
    /\ UNCHANGED <<resets, exceptTime, runVars, call>>

\* TimeTrigger.check_and_trigger(current_datetime) with date d and time t.
\* The caller passes the time of the current bar, which never goes back.
CheckAndTrigger(d, t) ==
    /\ d > now[1] \/ (d = now[1] /\ t >= now[2])
    /\ now' = <<d, t>>
    /\ triggers' = [k \in DOMAIN triggers |->
                       IF should_trigger(triggers[k], d, t)
                       THEN [triggers[k] EXCEPT !.last_trigger_date = d]
                       ELSE triggers[k]]
    /\ fired' = [k \in DOMAIN triggers |->
                    IF should_trigger(triggers[k], d, t)
                    THEN [fired[k] EXCEPT ![d] = @ + 1] ELSE fired[k]]
    /\ qualified' = [k \in DOMAIN triggers |->
                        IF Qualifies(triggers[k], d, t)
                        THEN qualified[k] \cup {d} ELSE qualified[k]]
    /\ UNCHANGED <<resets, exceptTime, runVars, call>>

\* TimeTrigger.reset()
ResetTriggers ==
    /\ resets < MaxResets
    /\ resets' = resets + 1
    /\ triggers' = [k \in DOMAIN triggers |->
                       [triggers[k] EXCEPT !.last_trigger_date = NoDate]]
    /\ UNCHANGED <<now, fired, qualified, exceptTime, runVars, call>>

NextTime ==
    \/ \E t \in TimesOfDay : AddTrigger("daily", 0, t)
    \/ \E w \in {0, 1}, t \in TimesOfDay : AddTrigger("weekly", w, t)
    \/ \E d \in Dates, t \in TimesOfDay : CheckAndTrigger(d, t)
    \/ ResetTriggers

SpecTime == InitCalc /\ [][NextTime]_vars

CalDays == 1..MaxCalDays
\* the API returns rows for trading days only: every third day is none
IsTradingDay(d) == d % 3 # 1

\* a constructor that runs its initialisation every time
ConstructAgain(dir) ==
    /\ objects' = IF instance = None THEN objects + 1 ELSE objects
    /\ instance' = IF instance = None THEN objects + 1 ELSE instance
    /\ baostock_handler' = "BaoStockHandler"
    /\ cache_dir' = dir
    /\ initialized' = TRUE
    /\ dh' = [op |-> "DataHandler", dir |-> dir, returned |-> instance']
    /\ UNCHANGED <<fs, apiVersion, exceptData, runVars, call>>

\* DataHandler(cache_dir=dir): __new__ makes the object only when
\* _instance is None, __init__ sets the attributes only when the object has
\* no _initialized yet
Construct(dir) ==
    /\ objects' = IF instance = None THEN objects + 1 ELSE objects
    /\ instance' = IF instance = None THEN objects + 1 ELSE instance
    /\ IF ~initialized
       THEN /\ baostock_handler' = "BaoStockHandler"
            /\ cache_dir' = dir
            /\ initialized' = TRUE
       ELSE UNCHANGED <<baostock_handler, cache_dir, initialized>>
    /\ dh' = [op |-> "DataHandler", dir |-> dir, returned |-> instance']
    /\ UNCHANGED <<fs, apiVersion, exceptData, runVars, call>>

\* a check that never trusts the local files
NeedApiAlways(existing_dates, start, end) == TRUE

\* step 2 of get_stock_data: the API is skipped when the local dates reach
\* from start or earlier to end or later and some local date is in the range
need_api_call(existing_dates, start, end) ==
    ~(/\ existing_dates # {}
      /\ \E lo \in existing_dates : lo <= start
      /\ \E hi \in existing_dates : hi >= end
      /\ \E d \in existing_dates : start <= d /\ d <= end)

\* the rows the API returns for [start, end]: one day of data per trading day
ApiRows(start, end) == {d \in start..end : IsTradingDay(d)}

\* the final read: every local file whose date is in [start, end]
LocalRows(files, start, end) ==
    {<<d, files[d]>> : d \in {x \in DOMAIN files : start <= x /\ x <= end}}

\* a get_stock_data that saves every day the API returned
GetStockDataOverwrites(start, end) ==
    /\ initialized
    /\ start <= end
    /\ LET existing == fs[cache_dir]
           api == need_api_call(DOMAIN existing, start, end)
           to_save == IF api THEN ApiRows(start, end) ELSE {}
           files == [d \in DOMAIN existing \cup to_save |->
                        IF d \in to_save THEN apiVersion ELSE existing[d]]
       IN  /\ fs' = [fs EXCEPT ![cache_dir] = files]
           /\ dh' = [op |-> "get_stock_data", start |-> start, end |-> end,
                      repeat |-> (/\ dh.op = "get_stock_data"
                                  /\ dh.start = start /\ dh.end = end
                                  /\ dh.rows # {}),
                      api_called |-> api, saved |-> to_save,
                      rows |-> LocalRows(files, start, end)]
    /\ UNCHANGED <<objects, instance, initialized, cache_dir, baostock_handler,
                   apiVersion, exceptData, runVars, call>>

\* DataHandler.get_stock_data(symbol, start, end, frequency) on the instance
GetStockData(start, end) ==
    /\ initialized
    /\ start <= end
    /\ LET existing == fs[cache_dir]
           api == need_api_call(DOMAIN existing, start, end)
           to_save == IF api THEN ApiRows(start, end) \ DOMAIN existing ELSE {}
           files == [d \in DOMAIN existing \cup to_save |->
                        IF d \in to_save THEN apiVersion ELSE existing[d]]
       IN  /\ fs' = [fs EXCEPT ![cache_dir] = files]
           /\ dh' = [op |-> "get_stock_data", start |-> start, end |-> end,
                      repeat |-> (/\ dh.op = "get_stock_data"
                                  /\ dh.start = start /\ dh.end = end
                                  /\ dh.rows # {}),
                      api_called |-> api, saved |-> to_save,
                      rows |-> LocalRows(files, start, end)]
    /\ UNCHANGED <<objects, instance, initialized, cache_dir, baostock_handler,
                   apiVersion, exceptData, runVars, call>>

\* the data source revises its history (new adjustment factors)
ApiRevises ==
    /\ apiVersion < MaxVersions
    /\ apiVersion' = apiVersion + 1
    /\ UNCHANGED <<objects, instance, initialized, cache_dir, baostock_handler,
                   fs, dh, exceptData, runVars, call>>

NextData ==
    \/ \E dir \in CacheDirs : Construct(dir)
    \/ \E start \in CalDays, end \in CalDays : GetStockData(start, end)
    \/ ApiRevises

SpecData == InitCalc /\ [][NextData]_vars

\* ------------------------------------------------------------ C26
Constructs == dh'.op = "DataHandler" /\ (dh' # dh \/ instance' # instance)

\* C26: every DataHandler(...) returns the one instance, object.__new__ makes
\* a single object, and once the instance is initialised no construction
\* changes its cache_dir or its data-source handler, whatever cache_dir is
\* passed.
C26_Singleton ==
    [][/\ Constructs =>
           /\ dh'.returned = instance'
           /\ instance # None => dh'.returned = instance
           /\ initialized =>
                  /\ cache_dir' = cache_dir
                  /\ baostock_handler' = baostock_handler
       /\ objects' <= 1
       /\ initialized => initialized']_vars

\* a second construction with another cache_dir has just returned
C26_Witness ==
    /\ dh.op = "DataHandler"
    /\ initialized /\ objects = 1 /\ dh.returned = instance
    /\ dh.dir # cache_dir

\* ------------------------------------------------------------ C27
\* C27: the day files are write-once: no step deletes a file or changes the
\* content of an existing one; a get_stock_data call writes files only in
\* the instance's cache directory, only for dates the API returned that had
\* no file, and writes nothing when the API is not called.
C27_WriteOnceCache ==
    [][\A dir \in CacheDirs :
          /\ \A d \in DOMAIN fs[dir] :
                 d \in DOMAIN fs'[dir] /\ fs'[dir][d] = fs[dir][d]
          /\ \A d \in DOMAIN fs'[dir] \ DOMAIN fs[dir] :
                 /\ dh'.op = "get_stock_data"
                 /\ dh'.api_called
                 /\ dir = cache_dir
                 /\ d \in ApiRows(dh'.start, dh'.end)
                 /\ d \in dh'.saved
          /\ (fs' # fs /\ dh'.op = "get_stock_data") =>
                 /\ dh'.api_called
                 /\ dh'.saved \cap DOMAIN fs[dir] = {}]_vars

\* the API was called again after a revision, over days that had files of
\* the first revision, and saved only the missing day
C27_Witness ==
    /\ dh.op = "get_stock_data" /\ dh.api_called
    /\ dh.saved # {}
    /\ \E d \in DOMAIN fs[cache_dir] \ dh.saved :
           /\ dh.start <= d /\ d <= dh.end
           /\ fs[cache_dir][d] # apiVersion

Covers(files, start, end) ==
    /\ \E d \in DOMAIN files : d <= start
    /\ \E d \in DOMAIN files : d >= end

IndDates == 1..MaxIndDates
IndValues == {"v1", "v2"}
Defaults == {"None", "fallback"}
\* the date argument: None, a date, a datetime (pd.Timestamp is one) with a
\* time of day, or a string
NoDateArg == [kind |-> "None", day |-> 0, time |-> 0]
DateArgs ==
    {NoDateArg}
    \cup [kind : {"date", "str"}, day : IndDates, time : {0}]
    \cup [kind : {"datetime"}, day : IndDates, time : {1}]

\* "convert to date key": a datetime or Timestamp gives its .date(), a
\* string is parsed and gives its date, a date is kept
date_key(date) == date.day

ItemKeys(items) == {items[i][1] : i \in DOMAIN items}
ItemAt(items, k) == items[CHOOSE i \in DOMAIN items : items[i][1] = k][2]
\* d[k] = v on a dict: an existing key keeps its place, a new one is last
SetItem(items, k, v) ==
    IF k \in ItemKeys(items)
    THEN [i \in DOMAIN items |-> IF items[i][1] = k THEN <<k, v>> ELSE items[i]]
    ELSE Append(items, <<k, v>>)
MaxKey(ks) == CHOOSE k \in ks : \A x \in ks : x <= k
MinKey(ks) == CHOOSE k \in ks : \A x \in ks : k <= x

\* sorted(indicator.items())
RECURSIVE SortedFrom(_, _)
SortedFrom(items, ks) ==
    IF ks = {} THEN <<>>
    ELSE LET k == MinKey(ks)
         IN  <<<<k, ItemAt(items, k)>>>> \o SortedFrom(items, ks \ {k})
sorted(items) == SortedFrom(items, ItemKeys(items))

has_indicator(inds, name) == inds[name].present

get_indicator(inds, name, date, default) ==
    IF ~inds[name].present THEN default
    ELSE LET indicator == inds[name].items
         IN  IF date # NoDateArg
             THEN IF date_key(date) \in ItemKeys(indicator)
                  THEN ItemAt(indicator, date_key(date))
                  ELSE default
             ELSE IF Len(indicator) > 0
                  THEN ItemAt(indicator, MaxKey(ItemKeys(indicator)))
                  ELSE default

\* the items as the dict holds them, unsorted
HistoryAsStored(inds, name) ==
    IF ~inds[name].present THEN <<>> ELSE inds[name].items

\* get_indicator_history(name, as_list=True); the dict form has the same
\* items in the same order
get_indicator_history(inds, name) ==
    IF ~inds[name].present THEN <<>>
    ELSE IF Len(inds[name].items) = 0 THEN <<>>
    ELSE sorted(inds[name].items)

\* set_indicator(name, value, date) while self.data.datetime.date(0) is today
SetIndicator(name, value, date, today) ==
    LET d == IF date = NoDateArg THEN today ELSE date_key(date)
        old == IF indicators[name].present THEN indicators[name].items ELSE <<>>
    IN  /\ indicators' = [indicators EXCEPT ![name] =
                              [present |-> TRUE, items |-> SetItem(old, d, value)]]
        /\ ind' = [op |-> "set_indicator", name |-> name, value |-> value,
                   key |-> d]
        /\ UNCHANGED <<exceptInd, runVars, call>>

\* clear_indicator(name); name "None" clears every indicator
ClearIndicator(name) ==
    /\ indicators' = [n \in IndNames |->
                          IF name = "None" \/ n = name
                          THEN [present |-> FALSE, items |-> <<>>]
                          ELSE indicators[n]]
    /\ ind' = [op |-> "clear_indicator", name |-> name, value |-> "None",
               key |-> 0]
    /\ UNCHANGED <<exceptInd, runVars, call>>

NextInd ==
    \/ \E name \in IndNames, value \in IndValues, date \in DateArgs,
          today \in IndDates :
           /\ date # NoDateArg => today = 1
           /\ SetIndicator(name, value, date, today)
    \/ \E name \in IndNames \cup {"None"} : ClearIndicator(name)

SpecInd == InitCalc /\ [][NextInd]_vars

\* ------------------------------------------------------------ C29
IndCalled(op) == ind' # ind /\ ind'.op = op
\* this step stores under (name, k) or removes name
Touches(name, k) ==
    \/ IndCalled("set_indicator") /\ ind'.name = name /\ ind'.key = k
    \/ IndCalled("clear_indicator") /\ ind'.name \in {name, "None"}
OnDate(k) == [kind |-> "date", day |-> k, time |-> 0]
Ascending(h) == \A i \in DOMAIN h, j \in DOMAIN h : i < j => h[i][1] < h[j][1]

\* the history of every name lists exactly the stored entries, in ascending
\* date order, and get_indicator without a date returns its last value
HistoryAgrees ==
    \A name \in IndNames :
       LET h == get_indicator_history(indicators, name)
       IN  /\ Ascending(h)
           /\ \A i \in DOMAIN h :
                  h[i][2] = get_indicator(indicators, name, OnDate(h[i][1]),
                                          "None")
           /\ \A k \in IndDates :
                  (\E i \in DOMAIN h : h[i][1] = k) <=>
                     get_indicator(indicators, name, OnDate(k), "fallback")
                        # "fallback"
           /\ \A default \in Defaults :
                  get_indicator(indicators, name, NoDateArg, default)
                     = IF Len(h) > 0 THEN h[Len(h)][2] ELSE default

\* C29: after set_indicator(name, v, date=d), get_indicator(name, date=d)
\* returns v, for every form of the same date, and keeps returning what it
\* returned until the (name, d) entry is stored again or name is cleared;
\* get_indicator(name) without a date returns the value of the latest date;
\* get_indicator_history lists exactly the stored entries in ascending date
\* order; after clear_indicator(name) has_indicator(name) is False and
\* get_indicator returns the default, with the other names unchanged.
C29_IndicatorRoundTrip ==
    /\ []HistoryAgrees
    /\ [][/\ IndCalled("set_indicator") =>
              /\ has_indicator(indicators', ind'.name)
              /\ \A date \in DateArgs \ {NoDateArg} :
                     date_key(date) = ind'.key =>
                        get_indicator(indicators', ind'.name, date, "None")
                           = ind'.value
          /\ \A name \in IndNames, k \in IndDates :
                 ~Touches(name, k) =>
                    get_indicator(indicators', name, OnDate(k), "fallback")
                       = get_indicator(indicators, name, OnDate(k), "fallback")
          /\ (IndCalled("clear_indicator") /\ ind'.name # "None") =>
                 /\ ~has_indicator(indicators', ind'.name)
                 /\ \A date \in DateArgs, default \in Defaults :
                        get_indicator(indicators', ind'.name, date, default)
                           = default
                 /\ \A other \in IndNames \ {ind'.name} :
                        indicators'[other] = indicators[other]]_vars

\* a value was stored under an earlier date than the one stored before it,
\* next to another indicator, and is read back through a string date
C29_Witness ==
    /\ ind.op = "set_indicator"
    /\ Len(get_indicator_history(indicators, ind.name)) = 2
    /\ get_indicator_history(indicators, ind.name) # indicators[ind.name].items
    /\ get_indicator(indicators, ind.name,
                      [kind |-> "str", day |-> ind.key, time |-> 0], "None")
          = ind.value
    /\ get_indicator(indicators, ind.name, NoDateArg, "None") # ind.value
    /\ \E other \in IndNames \ {ind.name} : has_indicator(indicators, other)

\* ========================================= policy/test.py, FlexibleStrategy
\* the feed's closes: four neighbouring whole prices
Closes == (MaxClose - 3)..MaxClose
\* as many bars are kept as next() looks back: maperiod + 1 for sma[-1],
\* and that is at least the 3 earlier closes of the breakout test
Window == maperiod + 1

RECURSIVE SumOf(_)
SumOf(seq) == IF seq = <<>> THEN 0 ELSE Head(seq) + SumOf(Tail(seq))
Recent(seq, n) == SubSeq(seq, Len(seq) - n + 1, Len(seq))
\* close[ago] for ago = 0, -1, ...
CloseAt(ago) == dataclose[Len(dataclose) + ago]
\* close[ago] compared with sma[ago], the mean of maperiod closes; before
\* maperiod bars exist the mean is NaN and every comparison is False
CloseAboveSma(ago) ==
    /\ nbars + ago >= maperiod
    /\ CloseAt(ago) * maperiod
          > SumOf(Recent(SubSeq(dataclose, 1, Len(dataclose) + ago), maperiod))
CloseAtMostSma(ago) ==
    /\ nbars + ago >= maperiod
    /\ CloseAt(ago) * maperiod
          <= SumOf(Recent(SubSeq(dataclose, 1, Len(dataclose) + ago), maperiod))
CloseBelowSma(ago) ==
    /\ nbars + ago >= maperiod
    /\ CloseAt(ago) * maperiod
          < SumOf(Recent(SubSeq(dataclose, 1, Len(dataclose) + ago), maperiod))
\* max(self.dataclose.get(ago=-1, size=3))
Max3Before == CHOOSE m \in {CloseAt(-1), CloseAt(-2), CloseAt(-3)} :
                 \A x \in {CloseAt(-1), CloseAt(-2), CloseAt(-3)} : x <= m

\* close * 0.95, in twentieths
Stop95(c) == c * 19

\* a stop that follows the price down as well
TrailFollows(stop, c) == Stop95(c)

\* "if current_stop > self.stop_price: self.stop_price = current_stop"
Trail(stop, c) == IF Stop95(c) > stop THEN Stop95(c) ELSE stop

\* cerebro moves to the next bar; the broker executes the market order of
\* the bar before at this bar and queues its notifications
FlexBar(c, outcome) ==
    /\ flex_phase = "bar"
    /\ dataclose' = IF Len(dataclose) < Window THEN Append(dataclose, c)
                    ELSE Append(Tail(dataclose), c)
    /\ nbars' = IF nbars < Window THEN nbars + 1 ELSE nbars
    /\ IF flex_pending # <<>>
       THEN /\ outcome \in (IF Head(flex_pending) = "buy"
                             THEN {"Completed", "Margin"} ELSE {"Completed"})
            /\ flex_notifs' = <<"Submitted", "Accepted", outcome>>
            /\ flex_pending' = Tail(flex_pending)
            /\ flex_phase' = "notify"
       ELSE /\ outcome = "Completed"
            /\ UNCHANGED <<flex_notifs, flex_pending>>
            /\ flex_phase' = "next"
    /\ UNCHANGED <<state, stop_price, flex_order, exceptFlex, runVars, call>>

\* notify_order(order) for the first queued notification
FlexNotifyOrder ==
    /\ flex_phase = "notify"
    /\ flex_notifs # <<>>
    /\ flex_order' = IF Head(flex_notifs) \in {"Submitted", "Accepted"}
                     THEN flex_order ELSE "None"
    /\ flex_notifs' = Tail(flex_notifs)
    /\ flex_phase' = IF Tail(flex_notifs) = <<>> THEN "next" ELSE "notify"
    /\ UNCHANGED <<dataclose, nbars, state, stop_price, flex_pending,
                   exceptFlex, runVars, call>>

\* next() on the current bar; before maperiod bars exist cerebro calls
\* prenext() instead, which does nothing
FlexNext ==
    /\ flex_phase = "next"
    /\ flex_phase' = "bar"
    /\ IF nbars < maperiod \/ flex_order # "None"
       THEN UNCHANGED <<state, stop_price, flex_order, flex_pending>>
       ELSE CASE state = "IDLE" ->
                   /\ state' = IF CloseAboveSma(0) /\ CloseAtMostSma(-1)
                                THEN "WATCHING" ELSE "IDLE"
                   /\ UNCHANGED <<stop_price, flex_order, flex_pending>>
              [] state = "WATCHING" ->
                   IF CloseAt(0) > Max3Before
                   THEN /\ flex_order' = "buy"
                        /\ flex_pending' = Append(flex_pending, "buy")
                        /\ state' = "POSITION"
                        /\ stop_price' = Stop95(CloseAt(0))
                   ELSE UNCHANGED <<state, stop_price, flex_order, flex_pending>>
              [] state = "POSITION" ->
                   /\ stop_price' = Trail(stop_price, CloseAt(0))
                   /\ IF \/ CloseAt(0) * 20 < stop_price'
                         \/ CloseBelowSma(0)
                      THEN /\ flex_order' = "sell"
                           /\ flex_pending' = Append(flex_pending, "sell")
                           /\ state' = "IDLE"
                      ELSE UNCHANGED <<state, flex_order, flex_pending>>
    /\ UNCHANGED <<dataclose, nbars, flex_notifs, exceptFlex, runVars, call>>

NextFlex ==
    \/ \E c \in Closes, outcome \in {"Completed", "Margin"} : FlexBar(c, outcome)
    \/ FlexNotifyOrder
    \/ FlexNext

SpecFlex == InitCalc /\ [][NextFlex]_vars

\* ------------------------------------------------------------ C30
FlexSubmits == Len(flex_pending') > Len(flex_pending)

\* C30: while the strategy stays in state POSITION its stop_price never
\* decreases, and it changes only to 95% of the current close; a sell is
\* submitted only from state POSITION and a buy only from state WATCHING;
\* no order is submitted while another order is at the broker, has an
\* undelivered notification or is held in self.order.
C30_TrailingStop ==
    [][/\ (state = "POSITION" /\ state' = "POSITION") =>
              /\ stop_price' >= stop_price
              /\ stop_price' # stop_price =>
                     stop_price' = Stop95(dataclose'[Len(dataclose')])
       /\ FlexSubmits =>
              /\ flex_pending'[Len(flex_pending')] = "sell" => state = "POSITION"
              /\ flex_pending'[Len(flex_pending')] = "buy" => state = "WATCHING"
              /\ flex_pending = <<>>
              /\ flex_notifs = <<>>
              /\ flex_order = "None"]_vars

\* next() has run in POSITION on a close whose 95% is below the stop, and
\* the stop stayed where a higher close had put it
C30_Witness ==
    /\ state = "POSITION" /\ flex_phase = "bar" /\ flex_order = "None"
    /\ nbars >= maperiod
    /\ stop_price > Stop95(dataclose[Len(dataclose)])
    /\ \E i \in DOMAIN dataclose : stop_price = Stop95(dataclose[i])

====
